---- MODULE Spec2Model ----
(***************************************************************************)
(* The interactive graph debugger of bindings/python/cntk/debug.py:        *)
(* DebugNode.forward / DebugNode.backward, the command loop they share     *)
(* through the class attributes DebugNode._commands and                    *)
(* DebugNode._last_pass, and the status line they print.                   *)
(*                                                                         *)
(* One invocation of forward or backward is a sequence of steps: the call  *)
(* (which prints the status), one step per input() line read at a prompt,  *)
(* and one step per iteration of the "while not done" loop.                *)
(***************************************************************************)
EXTENDS Integers, Sequences, FiniteSets, TLC

VARIABLES
    commands,    \* DebugNode._commands (class attribute, shared by all nodes)
    last_pass,   \* DebugNode._last_pass (class attribute)
    pc,          \* "idle" | "forward" | "backward" | "exited"
    call,        \* the running (or last) invocation: self.after and the arguments
    stdout,      \* the lines printed by the running (or last) invocation
    result,      \* how the last invocation ended: a return value or an exception
    inputs,      \* history: input() calls made by the running (or last) invocation
    traces,      \* history: pdb.set_trace() calls made by that invocation
    hist         \* history: the last understood line, the pass it was typed in,
                 \* the invocations that returned and the pdb shells opened since

\* The state of one call of debug_model(model).
VARIABLES
    graph,       \* the model object passed in: the inputs of each of its nodes
    model,       \* the local name model: the argument, then the clone
    stack,       \* depth_first_search: the nodes still to visit
    visited,     \* depth_first_search: the nodes already visited
    accum,       \* depth_first_search: the nodes accepted by the visitor, in order
    nodes,       \* the local name nodes
    created,     \* the DebugNode objects constructed, in order of construction
    mod,         \* the local name mod: node -> index in created of its DebugNode
    wpc,         \* "off" | "start" | "dfs" | "wrap" | "done"
    passed       \* history: the model and the graph debug_model was called with

wrapVars == <<graph, model, stack, visited, accum, nodes, created, mod, wpc, passed>>

vars == <<commands, last_pass, pc, call, stdout, result, inputs, traces, hist,
          wrapVars>>

-----------------------------------------------------------------------------
\* Bounds of the model.

\* The largest <number> typed after 'n'.
MaxNumber == 3
\* The input() calls one invocation may make (each 'p', help or empty line costs one).
MaxInputs == 3
\* The inputs one Function node of a model may have.
MaxFanIn == 2

-----------------------------------------------------------------------------
\* Python values.

None == [tag |-> "None"]
Str(s) == [tag |-> "str", s |-> s]
NdArray(d) == [tag |-> "ndarray", data |-> d]
PyInt(n) == [tag |-> "int", n |-> n]
Float(tenths) == [tag |-> "float", tenths |-> tenths]
Lambda(p) == [tag |-> "function", pred |-> p]
Tuple2(a, b) == [tag |-> "tuple", items |-> <<a, b>>]

\* callable(x)
Callable(x) == x.tag = "function"

\* The tensors handed to forward (argument) and backward (root_gradients).
Arrays == {NdArray(<<0, 0>>), NdArray(<<0, 4>>)}

\* What the framework hands to backward as state: forward returned None as state.
States == {None}

RECURSIVE SumSeq(_)
SumSeq(s) == IF s = <<>> THEN 0 ELSE Head(s) + SumSeq(Tail(s))

SquareSeq(s) == [i \in 1..Len(s) |-> s[i] * s[i]]

\* np.var(arg) > 1, in integers: var = (n * sum(x^2) - sum(x)^2) / n^2
VarGreaterOne(arg) ==
    LET n == Len(arg.data)
    IN  n * SumSeq(SquareSeq(arg.data)) - SumSeq(arg.data) * SumSeq(arg.data) > n * n

\* The predicates typed after 'n' (two of the help text's examples).
Preds == {"len(node.shape) == 3", "np.var(arg) > 1"}

\* predicate(arg, node)
PredEval(p, arg, node) ==
    IF p = "len(node.shape) == 3" THEN Len(node.shape) = 3 ELSE VarGreaterOne(arg)

-----------------------------------------------------------------------------
\* The wrapped nodes (self.after of each DebugNode instance).

Node(cls, op_name, is_sparse, name, uid, dynamic_axes, shape) ==
    [cls |-> cls, op_name |-> op_name, is_sparse |-> is_sparse, name |-> name,
     uid |-> uid, dynamic_axes |-> dynamic_axes, shape |-> shape]

Nodes ==
    { Node("Parameter", "", FALSE, "", "Parameter28", 0, <<2>>),
      Node("Function", "Times", FALSE, "", "Times29", 2, <<2>>),
      Node("Function", "Convolution", TRUE, "conv", "Convolution7", 1, <<2, 3, 4>>),
      Node("Variable", "", FALSE, "features", "Input3", 2, <<2>>),
      Node("Variable", "", TRUE, "labels", "Input4", 2, <<2>>) }

RECURSIVE Join(_, _)
Join(s, sep) ==
    IF s = <<>> THEN ""
    ELSE IF Len(s) = 1 THEN s[1]
    ELSE s[1] \o sep \o Join(Tail(s), sep)

\* str() of a shape tuple: (), (2,), (2, 3, 4)
ShapeStr(shape) ==
    IF Len(shape) = 1 THEN "(" \o ToString(shape[1]) \o ",)"
    ELSE "(" \o Join([i \in 1..Len(shape) |-> ToString(shape[i])], ", ") \o ")"

\* DebugNode._format_status: the text, or the exception it raises.  For a node
\* that is no Constant, Parameter or Function, node_type is a class object, and
\* node_type += ' (sparse)' raises TypeError.
_format_status(after) ==
    LET is_str == after.cls \in {"Constant", "Parameter", "Function"}
        node_type == IF after.cls \in {"Constant", "Parameter"} THEN after.cls
                     ELSE IF after.cls = "Function" THEN after.op_name
                     ELSE "<class '" \o after.cls \o "'>"
        typed == IF after.is_sparse THEN node_type \o " (sparse)" ELSE node_type
        name == IF after.name # "" THEN "name='" \o after.name \o "' " ELSE ""
        dyn_axes == "[" \o Join([i \in 1..after.dynamic_axes |-> "*"], ",") \o "]"
    IN  IF after.is_sparse /\ ~is_str
        THEN [raised |-> "TypeError", text |-> ""]
        ELSE [raised |-> "",
              text |-> typed \o " node with " \o name \o "uid='" \o after.uid
                       \o "' shape=" \o dyn_axes \o ShapeStr(after.shape)]

Rule == "========================================"

\* print(text): one printed line, with what it is.
Printed(kind, text) == [kind |-> kind, text |-> text]

\* DebugNode._print_status: the lines printed, and the exception raised if any.
\* lastp is DebugNode._last_pass.
_print_status(after, current_pass, lastp) ==
    LET header == IF current_pass # lastp
                  THEN IF current_pass = "f"
                       THEN <<Printed("blank", ""),
                              Printed("header", Rule \o " forward  " \o Rule)>>
                       ELSE <<Printed("header", Rule \o " backward " \o Rule)>>
                  ELSE <<>>
        status == _format_status(after)
    IN  IF status.raised # ""
        THEN [raised |-> status.raised, lines |-> header]
        ELSE [raised |-> "",
              lines |-> header \o
                  << Printed("status",
                             (IF current_pass = "f" THEN "Forward after "
                              ELSE "Backward before ") \o status.text) >>]

-----------------------------------------------------------------------------
\* The lines a user can type at the prompt, after strip().  first is
\* new_input[0] ("" for an empty line); rest describes new_input[1:]:
\*   "empty"        nothing follows
\*   "int"          int(new_input[1:]) succeeds, with value val
\*   "eval"         int() raises ValueError and eval(new_input[1:]) returns val
\*   "SyntaxError"  int() raises ValueError and eval() raises SyntaxError
\*   "NameError"    int() raises ValueError and eval() raises NameError
\*   "text"         some other text

Line(first, kind, val) == [first |-> first, rest |-> [kind |-> kind, val |-> val]]

Letter(c) == Line(c, "empty", None)

Lines ==
    {Letter(c) : c \in {"", "b", "c", "d", "f", "p", "n", "q", "h"}}
    \cup {Line("n", "int", PyInt(k)) : k \in 0..MaxNumber}
    \cup {Line("n", "eval", Lambda(p)) : p \in Preds}
    \cup {Line("n", "eval", v) : v \in {Float(15), Str("c")}}
    \cup {Line("n", "SyntaxError", None), Line("n", "NameError", None),
          Line("c", "text", None)}

Help == Printed("help", "Commands: ...")

\* ['n'] * number
Repeat(x, number) == [i \in 1..number |-> x]

\* One pass of the loop of DebugNode.__wait_for_input over the line new_input:
\*   understood  the list returned ("return"), else <<>>
\*   outcome     "return" | "again" (the loop asks again) | "exit" | "raise"
\*   lines       what it prints
__wait_for_input(new_input) ==
    LET again == [outcome |-> "again", understood |-> <<>>, lines |-> <<Help>>, raised |-> ""]
        return(l) == IF l = <<>> THEN again
                     ELSE [outcome |-> "return", understood |-> l, lines |-> <<>>,
                           raised |-> ""]
    IN  IF new_input.first = ""
        THEN [outcome |-> "again", understood |-> <<>>, lines |-> <<>>, raised |-> ""]
        ELSE IF new_input.rest.kind = "empty" /\ new_input.first \in {"b", "c", "d", "f", "p"}
        THEN return(<<Str(new_input.first)>>)
        ELSE IF new_input.first = "n"
        THEN CASE new_input.rest.kind = "empty" -> return(<<Str("n")>>)
               [] new_input.rest.kind = "int" ->
                      return(Repeat(Str("n"), new_input.rest.val.n))
               [] new_input.rest.kind = "eval" -> return(<<new_input.rest.val>>)
               [] new_input.rest.kind = "SyntaxError" -> again
               [] OTHER -> [outcome |-> "raise", understood |-> <<>>, lines |-> <<>>,
                            raised |-> new_input.rest.kind]
        ELSE IF new_input.first = "q" /\ new_input.rest.kind = "empty"
        THEN [outcome |-> "exit", understood |-> <<>>, lines |-> <<>>, raised |-> "SystemExit"]
        ELSE again

-----------------------------------------------------------------------------
\* The body of the "while not done" loop, below the prompt.

Last(s) == s[Len(s)]
\* list.pop()
Pop(s) == SubSeq(s, 1, Len(s) - 1)

Iter(cmds, done, lines, set_trace) ==
    [commands |-> cmds, done |-> done, lines |-> lines, set_trace |-> set_trace]

\* The branches of the loop of DebugNode.forward, one per command.
\* Mutant: 'c' is consumed like 'n'.
ForwardC_pop(cmds) == Iter(Pop(cmds), TRUE, <<>>, FALSE)

ForwardC(cmds) == Iter(cmds, TRUE, <<>>, FALSE)

\* Mutant: 'n' ends the invocation without leaving the queue.
ForwardN_keep(cmds) == Iter(cmds, TRUE, <<>>, FALSE)

ForwardN(cmds) == Iter(Pop(cmds), TRUE, <<>>, FALSE)

ForwardB(cmds) == Iter(cmds, TRUE, <<>>, FALSE)

\* Mutant: forward leaves 'f' queued, as backward does.
ForwardF_keep(cmds) == Iter(cmds, TRUE, <<>>, FALSE)

ForwardF(cmds) == Iter(Pop(cmds), TRUE, <<>>, FALSE)

\* Mutant: 'p' ends the invocation after printing.
ForwardP_done(cmds, argument) ==
    Iter(Pop(cmds), TRUE,
         <<Printed("text", "Input: "), Printed("value", ToString(argument.data))>>,
         FALSE)

ForwardP(cmds, argument) ==
    Iter(Pop(cmds), FALSE,
         <<Printed("text", "Input: "), Printed("value", ToString(argument.data))>>,
         FALSE)

\* commands.pop(), then pdb.set_trace()
ForwardD(cmds) == Iter(Pop(cmds), TRUE, <<>>, TRUE)

\* Mutant: the test of the predicate is inverted.
ForwardPred_inverted(cmds, argument, after) ==
    IF ~PredEval(Last(cmds).pred, argument, after)
    THEN Iter(Pop(cmds), FALSE, <<>>, FALSE)
    ELSE Iter(cmds, TRUE, <<>>, FALSE)

ForwardPred(cmds, argument, after) ==
    IF PredEval(Last(cmds).pred, argument, after)
    THEN Iter(Pop(cmds), FALSE, <<>>, FALSE)
    ELSE Iter(cmds, TRUE, <<>>, FALSE)

\* One iteration of the loop of DebugNode.forward with a non-empty queue.  A
\* last element that is no command and not callable matches no branch: the
\* loop goes round with nothing changed.
ForwardCmd(cmds, argument, after) ==
    LET top == Last(cmds)
    IN  IF top = Str("c") THEN ForwardC(cmds)
        ELSE IF top = Str("n") THEN ForwardN(cmds)
        ELSE IF top = Str("b") THEN ForwardB(cmds)
        ELSE IF top = Str("f") THEN ForwardF(cmds)
        ELSE IF top = Str("p") THEN ForwardP(cmds, argument)
        ELSE IF top = Str("d") THEN ForwardD(cmds)
        ELSE IF Callable(top) THEN ForwardPred(cmds, argument, after)
        ELSE Iter(cmds, FALSE, <<>>, FALSE)

\* The branches of the loop of DebugNode.backward, one per command.
BackwardC(cmds) == Iter(cmds, TRUE, <<>>, FALSE)

BackwardN(cmds) == Iter(Pop(cmds), TRUE, <<>>, FALSE)

BackwardB(cmds) == Iter(Pop(cmds), TRUE, <<>>, FALSE)

BackwardF(cmds) == Iter(cmds, TRUE, <<>>, FALSE)

\* str(state) of None is 'None'
BackwardP(cmds, state, root_gradients) ==
    Iter(Pop(cmds), FALSE,
         <<Printed("text", "State: " \o state.tag), Printed("text", "Root gradients: "),
           Printed("value", ToString(root_gradients.data))>>,
         FALSE)

\* pdb.set_trace() without commands.pop()
BackwardD(cmds) == Iter(cmds, TRUE, <<>>, TRUE)

BackwardPred(cmds, root_gradients, after) ==
    IF PredEval(Last(cmds).pred, root_gradients, after)
    THEN Iter(Pop(cmds), FALSE, <<>>, FALSE)
    ELSE Iter(cmds, TRUE, <<>>, FALSE)

\* One iteration of the loop of DebugNode.backward with a non-empty queue.
BackwardCmd(cmds, state, root_gradients, after) ==
    LET top == Last(cmds)
    IN  IF top = Str("c") THEN BackwardC(cmds)
        ELSE IF top = Str("n") THEN BackwardN(cmds)
        ELSE IF top = Str("b") THEN BackwardB(cmds)
        ELSE IF top = Str("f") THEN BackwardF(cmds)
        ELSE IF top = Str("p") THEN BackwardP(cmds, state, root_gradients)
        ELSE IF top = Str("d") THEN BackwardD(cmds)
        ELSE IF Callable(top) THEN BackwardPred(cmds, root_gradients, after)
        ELSE Iter(cmds, FALSE, <<>>, FALSE)

\* return None, argument
ForwardReturn(argument) == Tuple2(None, argument)

\* Mutant: backward hands back state in place of the gradients.
BackwardReturn_state(state, root_gradients) == state

\* return root_gradients
BackwardReturn(state, root_gradients) == root_gradients

-----------------------------------------------------------------------------
\* The state after class definition: _commands = [], _last_pass = 'f'.

\* Mutant: the queue starts with a pending 'c'.
InitCommands_c == <<Str("c")>>

InitCommands == <<>>
InitLastPass == "f"

\* History only: the values of call and hist.line before the first invocation.
NoCall == [pass |-> "f", after |-> CHOOSE n \in Nodes : TRUE, argument |-> None,
           state |-> None, root_gradients |-> None, entry |-> <<>>,
           entry_last_pass |-> "f"]
NoLine == Line("", "none", None)
Returned(v) == [kind |-> "return", value |-> v, raised |-> ""]
Raised(e) == [kind |-> "raise", value |-> None, raised |-> e]
Running == [kind |-> "running", value |-> None, raised |-> ""]

\* No call of debug_model is under way.
WrapOff ==
    /\ graph = [n \in Nodes |-> <<>>]
    /\ model = [kind |-> "original", root |-> CHOOSE n \in Nodes : TRUE]
    /\ stack = <<>>
    /\ visited = {}
    /\ accum = <<>>
    /\ nodes = <<>>
    /\ created = <<>>
    /\ mod = <<>>
    /\ wpc = "off"
    /\ passed = [model |-> model, graph |-> graph]

InitDebugNode ==
    /\ commands = InitCommands
    /\ last_pass = InitLastPass
    /\ pc = "idle"
    /\ call = NoCall
    /\ stdout = <<>>
    /\ result = [kind |-> "none", value |-> None, raised |-> ""]
    /\ inputs = 0
    /\ traces = 0
    /\ hist = [line |-> NoLine, pass |-> "f", returned |-> 0, traces |-> 0]

Init == InitDebugNode /\ WrapOff

Min(a, b) == IF a < b THEN a ELSE b

\* The history counters stop counting one past the largest number the claims
\* compare them with.
CountReturn(h) == [h EXCEPT !.returned = Min(@ + 1, MaxNumber + 1)]
CountTrace(h, t) == IF t THEN [h EXCEPT !.traces = Min(@ + 1, 2)] ELSE h

\* The framework calls self.forward(argument): _print_status('f') runs first.
Forward(self, argument) ==
    LET printed == _print_status(self, "f", last_pass)
    IN  /\ pc = "idle"
        /\ call' = [pass |-> "f", after |-> self, argument |-> argument,
                    state |-> None, root_gradients |-> None, entry |-> commands,
                    entry_last_pass |-> last_pass]
        /\ stdout' = printed.lines
        /\ inputs' = 0
        /\ traces' = 0
        /\ IF printed.raised # ""
           THEN pc' = "idle" /\ result' = Raised(printed.raised)
           ELSE pc' = "forward" /\ result' = Running
        /\ UNCHANGED <<commands, last_pass, hist, wrapVars>>

\* The framework calls self.backward(state, root_gradients).
Backward(self, state, root_gradients) ==
    LET printed == _print_status(self, "b", last_pass)
    IN  /\ pc = "idle"
        /\ call' = [pass |-> "b", after |-> self, argument |-> None,
                    state |-> state, root_gradients |-> root_gradients,
                    entry |-> commands, entry_last_pass |-> last_pass]
        /\ stdout' = printed.lines
        /\ inputs' = 0
        /\ traces' = 0
        /\ IF printed.raised # ""
           THEN pc' = "idle" /\ result' = Raised(printed.raised)
           ELSE pc' = "backward" /\ result' = Running
        /\ UNCHANGED <<commands, last_pass, hist, wrapVars>>

\* "if not commands": the user types one line at the prompt.
Input(new_input) ==
    LET w == __wait_for_input(new_input)
    IN  /\ pc \in {"forward", "backward"}
        /\ commands = <<>>
        /\ inputs < MaxInputs
        /\ inputs' = inputs + 1
        /\ stdout' = stdout \o w.lines
        /\ commands' = w.understood
        /\ hist' = IF w.outcome = "return"
                   THEN [line |-> new_input, pass |-> call.pass, returned |-> 0,
                         traces |-> 0]
                   ELSE hist
        /\ pc' = CASE w.outcome = "exit" -> "exited"
                   [] w.outcome = "raise" -> "idle"
                   [] OTHER -> pc
        /\ result' = IF w.outcome \in {"exit", "raise"} THEN Raised(w.raised) ELSE result
        /\ UNCHANGED <<last_pass, call, traces, wrapVars>>

\* One iteration of forward's loop on a non-empty queue; when done,
\* DebugNode._last_pass = 'f' and the return.
ForwardStep ==
    LET it == ForwardCmd(commands, call.argument, call.after)
    IN  /\ pc = "forward"
        /\ commands # <<>>
        /\ commands' = it.commands
        /\ stdout' = stdout \o it.lines
        /\ traces' = IF it.set_trace THEN traces + 1 ELSE traces
        /\ IF it.done
           THEN /\ last_pass' = "f"
                /\ result' = Returned(ForwardReturn(call.argument))
                /\ pc' = "idle"
                /\ hist' = CountReturn(CountTrace(hist, it.set_trace))
           ELSE UNCHANGED <<last_pass, result, pc, hist>>
        /\ UNCHANGED <<call, inputs, wrapVars>>

\* One iteration of backward's loop on a non-empty queue; when done,
\* DebugNode._last_pass = 'b' and the return.
BackwardStep ==
    LET it == BackwardCmd(commands, call.state, call.root_gradients, call.after)
    IN  /\ pc = "backward"
        /\ commands # <<>>
        /\ commands' = it.commands
        /\ stdout' = stdout \o it.lines
        /\ traces' = IF it.set_trace THEN traces + 1 ELSE traces
        /\ IF it.done
           THEN /\ last_pass' = "b"
                /\ result' = Returned(BackwardReturn(call.state, call.root_gradients))
                /\ pc' = "idle"
                /\ hist' = CountReturn(CountTrace(hist, it.set_trace))
           ELSE UNCHANGED <<last_pass, result, pc, hist>>
        /\ UNCHANGED <<call, inputs, wrapVars>>

Next ==
    \/ \E self \in Nodes, argument \in Arrays : Forward(self, argument)
    \/ \E self \in Nodes, state \in States, root_gradients \in Arrays :
           Backward(self, state, root_gradients)
    \/ \E new_input \in Lines : Input(new_input)
    \/ ForwardStep
    \/ BackwardStep

Spec == Init /\ [][Next]_vars

-----------------------------------------------------------------------------
\* debug_model(model).

SeqsUpTo(S, n) == UNION {[1..k -> S] : k \in 0..n}

\* The nodes a Function node may take as inputs in the models tried: a Times
\* node anything but itself, another Function node only leaves.
InputsAllowed(n) ==
    IF n.op_name = "Times" THEN Nodes \ {n}
    ELSE IF n.cls = "Function" THEN {m \in Nodes : m.cls # "Function"}
    ELSE {}

\* The models tried: for each node the sequence of its inputs.  A node may be
\* the input of several nodes, and twice the input of one.
Graphs ==
    LET times == CHOOSE n \in Nodes : n.op_name = "Times"
        conv == CHOOSE n \in Nodes : n.cls = "Function" /\ n # times
    IN  { [n \in Nodes |-> IF n = times THEN t ELSE IF n = conv THEN c ELSE <<>>] :
            t \in SeqsUpTo(InputsAllowed(times), MaxFanIn),
            c \in SeqsUpTo(InputsAllowed(conv), MaxFanIn) }

\* lambda x: True
visitor(x) == TRUE

\* One round of the loop of cntk.graph.depth_first_search: the node on top of
\* the stack is taken off; unless it was visited before, its inputs go on the
\* stack, it is accumulated if the visitor accepts it, and it is marked.
depth_first_search(g, stk, seen, acc) ==
    LET node == Last(stk)
        rest == Pop(stk)
    IN  IF node \in seen
        THEN [stack |-> rest, visited |-> seen, accum |-> acc]
        ELSE [stack |-> rest \o g[node],
              visited |-> seen \cup {node},
              accum |-> IF visitor(node) THEN Append(acc, node) ELSE acc]

\* Mutant: the wrapped node is not handed on as the input of the DebugNode.
__init___no_input(arg, name) ==
    [after |-> arg, inputs |-> <<>>, as_numpy |-> TRUE, name |-> name]

\* DebugNode.__init__(arg, name='DebugNode')
__init__(arg, name) ==
    [after |-> arg, inputs |-> <<arg>>, as_numpy |-> TRUE, name |-> name]

\* CloneMethod.share
CloneMethodShare == "share"

\* model.clone(method, substitutions): a new function object; the object it
\* is called on stays as it was (g is handed back unchanged).
clone(g, m, method, substitutions) ==
    [model |-> [kind |-> "clone", of |-> m, method |-> method,
                substitutions |-> substitutions,
                shares_parameters |-> method = "share"],
     graph |-> g]

\* The caller has built a model and calls debug_model(model).
InitWrap ==
    /\ InitDebugNode
    /\ graph \in Graphs
    /\ \E root \in Nodes : model = [kind |-> "original", root |-> root]
    /\ stack = <<>>
    /\ visited = {}
    /\ accum = <<>>
    /\ nodes = <<>>
    /\ created = <<>>
    /\ mod = <<>>
    /\ wpc = "start"
    /\ passed = [model |-> model, graph |-> graph]

debugNodeVars == <<commands, last_pass, pc, call, stdout, result, inputs, traces, hist>>

\* nodes = depth_first_search(model, lambda x: True): the call.
DebugModel ==
    /\ wpc = "start"
    /\ wpc' = "dfs"
    /\ stack' = <<model.root>>
    /\ UNCHANGED <<graph, model, visited, accum, nodes, created, mod, passed>>
    /\ UNCHANGED debugNodeVars

\* One round of the traversal.
DepthFirstSearchStep ==
    /\ wpc = "dfs"
    /\ stack # <<>>
    /\ LET r == depth_first_search(graph, stack, visited, accum)
       IN  /\ stack' = r.stack
           /\ visited' = r.visited
           /\ accum' = r.accum
    /\ UNCHANGED <<graph, model, nodes, created, mod, wpc, passed>>
    /\ UNCHANGED debugNodeVars

\* The traversal returns what it accumulated.
DepthFirstSearchReturn ==
    /\ wpc = "dfs"
    /\ stack = <<>>
    /\ nodes' = accum
    /\ wpc' = "wrap"
    /\ UNCHANGED <<graph, model, stack, visited, accum, created, mod, passed>>
    /\ UNCHANGED debugNodeVars

\* mod = {n: DebugNode(n) for n in nodes}: the next n.
Wrap ==
    /\ wpc = "wrap"
    /\ Len(created) < Len(nodes)
    /\ LET n == nodes[Len(created) + 1]
       IN  /\ created' = Append(created, __init__(n, "DebugNode"))
           /\ mod' = [k \in DOMAIN mod \cup {n} |->
                         IF k = n THEN Len(created) + 1 ELSE mod[k]]
    /\ UNCHANGED <<graph, model, stack, visited, accum, nodes, wpc, passed>>
    /\ UNCHANGED debugNodeVars

\* model = model.clone(CloneMethod.share, mod); return model
Clone ==
    /\ wpc = "wrap"
    /\ Len(created) = Len(nodes)
    /\ LET r == clone(graph, model, CloneMethodShare, mod)
       IN  /\ model' = r.model
           /\ graph' = r.graph
    /\ wpc' = "done"
    /\ UNCHANGED <<stack, visited, accum, nodes, created, mod, passed>>
    /\ UNCHANGED debugNodeVars

NextWrap ==
    \/ DebugModel
    \/ DepthFirstSearchStep
    \/ DepthFirstSearchReturn
    \/ Wrap
    \/ Clone

SpecWrap == InitWrap /\ [][NextWrap]_vars

-----------------------------------------------------------------------------
\* Vocabulary of the properties.

\* An invocation is between its status line and its return.
InCall == pc \in {"forward", "backward"}

\* The last invocation returned (it neither raised nor is still running).
JustReturned == pc = "idle" /\ result.kind = "return"

\* The tensor the running invocation was given.
CallValue == IF call.pass = "f" THEN call.argument ELSE call.root_gradients

\* The lines 'n' and 'n <number>' with number >= 1, and their number.
NumberLines == {Letter("n")} \cup {Line("n", "int", PyInt(k)) : k \in 1..MaxNumber}
NumberOf(line) == IF line = Letter("n") THEN 1 ELSE line.rest.val.n

RECURSIVE CountKind(_, _)
CountKind(lines, kind) ==
    IF lines = <<>> THEN 0
    ELSE (IF Head(lines).kind = kind THEN 1 ELSE 0) + CountKind(Tail(lines), kind)

-----------------------------------------------------------------------------
\* C1: DebugNode is a pass-through.  Whatever was queued and whatever was
\* typed, a forward invocation that returns returns (None, argument) and a
\* backward invocation that returns returns root_gradients, the very values
\* it was called with.
C1_PassThrough ==
    JustReturned =>
        IF call.pass = "f"
        THEN result.value = Tuple2(None, call.argument)
        ELSE result.value = call.root_gradients

\* A backward invocation that printed the gradients, opened pdb and returned.
C1_Witness ==
    /\ JustReturned
    /\ call.pass = "b"
    /\ call.root_gradients = NdArray(<<0, 4>>)
    /\ CountKind(stdout, "value") >= 1
    /\ traces = 1

\* C2: execution pauses at every node by default.  An invocation entered with
\* an empty queue cannot go on without reading the prompt, so it has prompted
\* at least once when it returns; and the queue is empty at process start, so
\* no invocation returns before a line was typed and understood.
C2_PausesByDefault ==
    /\ (InCall /\ call.entry = <<>> /\ inputs = 0) => commands = <<>>
    /\ (JustReturned /\ call.entry = <<>>) => inputs >= 1
    /\ JustReturned => hist.line # NoLine
    /\ hist.line = NoLine => commands = <<>>

\* A backward invocation, not the first of the process, that found the queue
\* empty, prompted and returned.
C2_Witness ==
    /\ JustReturned
    /\ call.pass = "b"
    /\ call.entry = <<>>
    /\ call.entry_last_pass = "b"
    /\ inputs >= 1

\* C3: after 'n k' (k >= 1, plain 'n' being k = 1) exactly k invocations
\* return without a further prompt, the one that read the line being the
\* first, whatever node and pass each of them is; the queue holds one 'n' for
\* each invocation still to run, and the invocation after the k-th finds it
\* empty and prompts.
C3_NextNumber ==
    hist.line \in NumberLines =>
        LET k == NumberOf(hist.line)
        IN  /\ hist.returned <= k
            /\ commands = Repeat(Str("n"), k - hist.returned)
            /\ (JustReturned /\ hist.returned >= 2) => inputs = 0
            /\ (InCall /\ hist.returned \in 1..(k - 1)) => inputs = 0

\* 'n 3' typed in a forward invocation; the third invocation to return is a
\* backward one on another node, and it returned without prompting.
C3_Witness ==
    /\ hist.line = Line("n", "int", PyInt(3))
    /\ hist.pass = "f"
    /\ hist.returned = 3
    /\ JustReturned
    /\ call.pass = "b"
    /\ inputs = 0
    /\ commands = <<>>

\* C4: 'f' typed at a backward prompt lets every following backward
\* invocation return without prompting and stops at the first forward
\* invocation that follows: that forward invocation prompts before it
\* returns.  Symmetrically for 'b' typed at a forward prompt.
C4_RunUntilPass ==
    \A letter \in {"f", "b"} :
        (hist.line = Letter(letter) /\ hist.pass # letter) =>
            /\ (InCall /\ call.pass # letter /\ call.entry_last_pass # letter
                    /\ hist.returned >= 1) =>
                   (inputs = 0 /\ commands # <<>>)
            /\ (JustReturned /\ call.pass = letter) => inputs >= 1

\* C5: while a predicate is pending, an invocation at which it is false
\* returns without prompting and keeps it pending; an invocation at which it
\* is true removes it, and with the queue then empty that same invocation
\* prompts before it can return.  The value tested is the argument in forward
\* and the root gradients in backward.
C5_UntilLambda ==
    [][ (InCall /\ commands # <<>> /\ Callable(Last(commands))) =>
            IF PredEval(Last(commands).pred, CallValue, call.after)
            THEN /\ commands' = <<>>
                 /\ pc' = pc
                 /\ result' = Running
                 /\ inputs' = inputs
            ELSE /\ commands' = commands
                 /\ pc' = "idle"
                 /\ result'.kind = "return"
                 /\ inputs' = inputs ]_vars

\* A predicate typed in a forward invocation was false there, and false at a
\* later invocation or two; it is true at this backward invocation, which
\* now waits at the prompt.
C5_Witness ==
    /\ hist.line.rest.kind = "eval"
    /\ Callable(hist.line.rest.val)
    /\ hist.pass = "f"
    /\ hist.returned >= 2
    /\ pc = "backward"
    /\ call.entry # <<>>
    /\ commands = <<>>
    /\ inputs = 0

\* C6: once 'c' was typed, no invocation prompts again: the queue stays
\* ['c'], and every later invocation returns in one step after its status
\* line, printing nothing more and reading no input.
C6_Continue ==
    [][ hist.line = Letter("c") =>
            /\ commands = <<Str("c")>>
            /\ commands' = <<Str("c")>>
            /\ hist'.line = Letter("c")
            /\ inputs' <= inputs
            /\ InCall => (pc' = "idle" /\ result'.kind = "return" /\ stdout' = stdout) ]_vars

\* 'c' typed in a forward invocation; three invocations later a backward
\* invocation has returned without a prompt.
C6_Witness ==
    /\ hist.line = Letter("c")
    /\ hist.pass = "f"
    /\ hist.returned >= 3
    /\ JustReturned
    /\ call.pass = "b"
    /\ inputs = 0
    /\ CountKind(stdout, "status") = 1

\* C7: each 'd' opens pdb exactly once, in the invocation where it was
\* typed, and is then consumed: the invocation returns with the queue empty,
\* so that the next invocation prompts instead of opening pdb again.
C7_PdbOnce ==
    hist.line = Letter("d") =>
        /\ hist.traces <= 1
        /\ hist.returned >= 1 => (hist.traces = 1 /\ commands = <<>>)
        /\ (InCall /\ hist.returned >= 1) => traces = 0

\* What one iteration of the running invocation's loop does with queue cmds.
CallCmd(cmds) ==
    IF call.pass = "f"
    THEN ForwardCmd(cmds, call.argument, call.after)
    ELSE BackwardCmd(cmds, call.state, call.root_gradients, call.after)

\* C8: at a forward prompt 'f' does what 'n' does, and at a backward prompt
\* 'b' does what 'n' does: the loop's iteration on the one-element queue has
\* the same effect for both lines, the invocation returns with the queue
\* empty, and the next invocation prompts.
C8_LikeNext ==
    /\ (InCall /\ commands = <<>>) =>
           LET same == CallCmd(__wait_for_input(Letter(call.pass)).understood)
               next == CallCmd(__wait_for_input(Letter("n")).understood)
           IN  same = next /\ same.done /\ same.commands = <<>>
    /\ (hist.line \in {Letter("f"), Letter("b")} /\ hist.line = Letter(hist.pass)) =>
           /\ hist.returned <= 1
           /\ hist.returned = 1 => commands = <<>>
           /\ JustReturned => (call.pass = hist.pass /\ last_pass = hist.pass)

\* 'f' typed at a forward prompt: the invocation returned, and the next one,
\* a backward invocation, is at its prompt.
C8_Witness ==
    /\ hist.line = Letter("f")
    /\ hist.pass = "f"
    /\ hist.returned = 1
    /\ pc = "backward"
    /\ commands = <<>>

\* C9: 'p' prints the input (forward) or the state and the root gradients
\* (backward), is consumed, and does not end the invocation: the queue is
\* empty again, the same invocation is back at its prompt, and _last_pass is
\* what it was, however many times 'p' is typed in a row.
C9_PrintInspects ==
    /\ [][ (InCall /\ commands # <<>> /\ Last(commands) = Str("p")) =>
              /\ commands' = <<>>
              /\ pc' = pc
              /\ call' = call
              /\ result' = Running
              /\ last_pass' = last_pass
              /\ Len(stdout') > Len(stdout)
              /\ Last(stdout') = Printed("value", ToString(CallValue.data))
              /\ call.pass = "b" =>
                     stdout'[Len(stdout) + 1] = Printed("text", "State: None")
      ]_vars
    /\ [](  (hist.line = Letter("p") /\ InCall) =>
              /\ commands \in {<<>>, <<Str("p")>>}
              /\ last_pass = call.entry_last_pass
              /\ hist.returned = 0 )

\* Two 'p' in a row in a backward invocation that followed a forward one:
\* the gradients were printed twice and the node is at its prompt again.
C9_Witness ==
    /\ hist.line = Letter("p")
    /\ pc = "backward"
    /\ last_pass = "f"
    /\ commands = <<>>
    /\ inputs = 2
    /\ CountKind(stdout, "value") = 2

\* C10: every invocation prints exactly one status line, before any command
\* is processed, and a pass header before it exactly when its pass differs
\* from _last_pass; _last_pass is 'f' at process start and, once an
\* invocation has returned, the pass of that invocation.
C10_StatusLine ==
    /\ result.kind = "none" => last_pass = "f"
    /\ JustReturned => last_pass = call.pass
    /\ result.kind # "none" =>
           /\ CountKind(stdout, "status") = 1
           /\ CountKind(stdout, "header") =
                  (IF call.pass # call.entry_last_pass THEN 1 ELSE 0)
           /\ stdout[CountKind(stdout, "header") + CountKind(stdout, "blank") + 1].kind
                  = "status"

\* The nodes of graph g that can be reached from node root through inputs.
RECURSIVE ReachableFrom(_, _)
ReachableFrom(g, found) ==
    LET more == found \cup UNION {{g[n][i] : i \in DOMAIN g[n]} : n \in found}
    IN  IF more = found THEN found ELSE ReachableFrom(g, more)

\* C11: debug_model wraps every node.  When it returns, the traversal has
\* returned every node of the model, and for each node returned exactly one
\* DebugNode was constructed, with that node as its after and as its only
\* input; no other DebugNode was constructed; the substitution map has
\* exactly the returned nodes as keys, each mapped to its DebugNode; what is
\* returned is a clone of the model passed in, made with CloneMethod.share
\* and this map; and the model passed in is as it was.
C11_WrapsEveryNode ==
    wpc = "done" =>
        LET returned == {nodes[i] : i \in DOMAIN nodes}
        IN  /\ returned = ReachableFrom(passed.graph, {passed.model.root})
            /\ \A n \in returned :
                   /\ Cardinality({i \in DOMAIN created : created[i].after = n}) = 1
                   /\ \A i \in DOMAIN created :
                          created[i].after = n => created[i].inputs = <<n>>
            /\ \A i \in DOMAIN created : created[i].after \in returned
            /\ DOMAIN mod = returned
            /\ \A n \in returned : created[mod[n]].after = n
            /\ model.kind = "clone"
            /\ model.method = "share"
            /\ model.substitutions = mod
            /\ model.of = passed.model
            /\ graph = passed.graph

\* debug_model has returned for a model in which a node is twice the input
\* of one node and also the input of another, all of them reached.
C11_Witness ==
    /\ wpc = "done"
    /\ Len(nodes) >= 3
    /\ \E f, h, n \in {nodes[i] : i \in DOMAIN nodes} :
           /\ f # h
           /\ graph[f] = <<n, n>>
           /\ n \in {graph[h][i] : i \in DOMAIN graph[h]}
====
